---- MODULE Spec2Model ----
(***************************************************************************)
(* Model of src/betting_system.py: class BettingSystem.                    *)
(*                                                                         *)
(* The program is a single-threaded asyncio application, so every action   *)
(* below is one run of a coroutine from one suspension point (await) to    *)
(* the next.  The environment (locator resolver, audio producer,           *)
(* recognition service, websocket peers, callers of start/stop) is         *)
(* nondeterministic.                                                       *)
(***************************************************************************)
EXTENDS Integers, Sequences, FiniteSets, TLC

\* ------------------------------------------------------------------ bounds
NumSubscribers == 2        \* websocket connections that may ever be accepted
MaxStarts == 2             \* calls of start() that may ever be made
MaxResults == 2            \* results the recognition service may ever emit
MaxTextLen == 3            \* characters of a transcript drawn for _find_keywords
MaxOps == 3                \* registry operations applied in RegistrySpec
MaxChunks == 2             \* chunks that may ever be read from one ffmpeg process

Subscribers == 1..NumSubscribers
Calls == 1..MaxStarts
None == 0

Range(s) == {s[i] : i \in DOMAIN s}

\* ------------------------------------------------------------ _find_keywords
\* Characters are one-letter strings, a text is a sequence of characters.
Str_bet == <<"b", "e", "t">>
Str_odds == <<"o", "d", "d", "s">>

\* main(): the configured word list (abbreviated to the two words of the
\* specification's scenario).
BettingKeywords == <<Str_bet, Str_odds>>

\* str.lower() on the letters the model uses.
LowerChar(ch) ==
    CASE ch = "A" -> "a"
      [] ch = "B" -> "b"
      [] ch = "T" -> "t"
      [] OTHER -> ch

Lower(s) == [i \in DOMAIN s |-> LowerChar(s[i])]

\* str.replace(ch, '')
Remove(s, ch) == SelectSeq(s, LAMBDA x : x # ch)

IsSpace(ch) == ch = " "

\* str.split(): maximal runs of non-whitespace characters.
RECURSIVE SplitFrom(_, _, _)
SplitFrom(s, i, cur) ==
    IF i > Len(s)
    THEN IF cur = <<>> THEN <<>> ELSE <<cur>>
    ELSE IF IsSpace(s[i])
         THEN IF cur = <<>>
              THEN SplitFrom(s, i + 1, <<>>)
              ELSE <<cur>> \o SplitFrom(s, i + 1, <<>>)
         ELSE SplitFrom(s, i + 1, Append(cur, s[i]))

Split(s) == SplitFrom(s, 1, <<>>)

\* __init__: self.keywords = set(kw.lower() for kw in keywords)
KeywordSetOf(kwlist) == {Lower(kwlist[i]) : i \in DOMAIN kwlist}

\* words = text.lower().replace('.', '').replace(',', '').split()
Words(t) == Split(Remove(Remove(Lower(t), "."), ","))

\* the loop of _find_keywords: found, in text order, with repetitions
Found(t, kws) == SelectSeq(Words(t), LAMBDA w : w \in kws)

\* list(set(found)): the elements of found, each once, in an order the
\* interpreter's hashing decides: every order is possible.
ListOfSetKeepingDuplicates(found) == {found}
ListOfSet(found) ==
    LET S == Range(found)
        n == Cardinality(S)
    IN {q \in [1..n -> S] : Range(q) = S}

\* _find_keywords(text): the lists it may return
FindKeywords(t, kws) == ListOfSet(Found(t, kws))

\* ---------------------------------------------------------------- variables
VARIABLES
    keywords,        \* self.keywords
    is_running,      \* self.is_running
    ffmpeg_process,  \* self.ffmpeg_process: None or the process start() call c spawned
    clients,         \* self.clients
    pc,              \* pc[c]: where call c of start() is suspended
    procState,       \* procState[c]: the ffmpeg process call c spawned
    session,         \* session[c]: the streaming_recognize call of call c
    portOwner,       \* the call whose websocket server listens on ws_port, or None
    wsState,         \* wsState[w]: connection w and its _websocket_handler
    wsServer,        \* wsServer[w]: the call whose server accepted connection w
    tasks,           \* the _broadcast tasks that have not returned, in creation order
    nResults,        \* history: how many results _process_stt_response was handed
    nNoAlt,          \* history: how many of them had no alternatives
    nEvents,         \* history: how many events were handed to create_task
    acqFail,         \* history: acqFail[c], the environment made c's acquisition fail
    trace,           \* history: trace[c], what call c did on leaving its try block
    text,            \* KeywordSpec: the argument of _find_keywords
    found,           \* KeywordSpec: the list _find_keywords returned
    kwDone,          \* KeywordSpec: _find_keywords has returned
    regOps,          \* RegistrySpec: the registry operations applied so far
    keyError,        \* RegistrySpec: the last operation raised KeyError
    genPc,           \* genPc[c]: where the request_generator of call c is suspended
    genSrc,          \* genSrc[c]: the process whose stdout that generator is reading
    nRead,           \* nRead[p]: how many chunks were read from the stdout of process p
    sent             \* sent[c]: the requests sent on the session of call c, in order

vars == <<keywords, is_running, ffmpeg_process, clients, pc, procState, session,
          portOwner, wsState, wsServer, tasks, nResults, nNoAlt, nEvents, acqFail,
          trace, text, found, kwDone, regOps, keyError, genPc, genSrc, nRead, sent>>

\* The variables of the other specifications, which the system leaves alone.
kwVars == <<text, found, kwDone>>
regVars == <<regOps, keyError>>
genVars == <<genPc, genSrc, nRead, sent>>
auxVars == <<kwVars, regVars, genVars>>

\* -------------------------------------------------------------- the pipeline
\* Transcripts the recognition service may return as the top alternative.
Transcripts == {<<"B", "e", "t", ".">>, <<"n", "o">>}

\* A result of a streaming response: alt says whether result.alternatives is
\* non-empty; transcript is alternatives[0].transcript (empty when there is none).
Results ==
    [alt : {TRUE}, is_final : BOOLEAN, transcript : Transcripts]
    \cup [alt : {FALSE}, is_final : BOOLEAN, transcript : {<<>>}]

RECURSIVE SeqsUpTo(_, _)
SeqsUpTo(S, n) ==
    IF n = 0 THEN {<<>>}
    ELSE LET shorter == SeqsUpTo(S, n - 1)
         IN shorter \cup {Append(q, x) : q \in {r \in shorter : Len(r) = n - 1}, x \in S}

\* Results that all carry the same final transcript.
FinalResults == {[alt |-> TRUE, is_final |-> TRUE, transcript |-> <<"B", "e", "t", ".">>]}

\* process.returncode is None
ReturnCodeIsNone(ps) == ps \in {"running", "signalled"}

\* stop(): if self.ffmpeg_process and self.ffmpeg_process.returncode is None:
\*             self.ffmpeg_process.terminate()
TerminateNever(ps, fp) == ps
Terminate(ps, fp) ==
    IF fp # None /\ ReturnCodeIsNone(ps[fp])
    THEN [ps EXCEPT ![fp] = "signalled"]
    ELSE ps

\* _start_ffmpeg_process: if self.ffmpeg_process.returncode is not None: raise
FfmpegFailedNever(ps) == FALSE
FfmpegFailed(ps) == ~ReturnCodeIsNone(ps)

\* start: if not stream_url: raise RuntimeError
NoStreamUrl(url) == url = None

\* _google_stt_stream: if not self.is_running: break
LoopBreaksNever(running) == FALSE
LoopBreaks(running) == ~running

\* _process_stt_response: if not result.alternatives: continue
SkipsResultWithoutKeywords(r, kws) == ~r.alt \/ Found(r.transcript, kws) = <<>>
SkipsResult(r, kws) == ~r.alt

\* What start() does when control leaves its try block, in order: the except
\* clause (only when an exception was raised) and then the finally clause up to
\* its await.
LeaveTry(raised) ==
    (IF raised THEN <<"report">> ELSE <<>>) \o <<"stop", "server_close">>

\* server.close(): the listening socket is closed and so is every open
\* connection the server accepted ("shut": closed by the server, not by the
\* peer).
CloseConnections(ws, srv, c) ==
    [w \in Subscribers |-> IF ws[w] = "open" /\ srv[w] = c THEN "shut" ELSE ws[w]]

\* except Exception / finally of start(), up to `await server.wait_closed()`.
\* One step: there is no suspension point between the raise and that await.
ExitTry(c, raised) ==
    /\ is_running' = FALSE
    /\ procState' = Terminate(procState, ffmpeg_process)
    /\ portOwner' = IF portOwner = c THEN None ELSE portOwner
    /\ wsState' = CloseConnections(wsState, wsServer, c)
    /\ trace' = [trace EXCEPT ![c] = @ \o LeaveTry(raised)]
    /\ pc' = [pc EXCEPT ![c] = "wait_closed"]

Idle(c) == pc[c] \in {"idle", "returned", "raised"}

\* start(): self.is_running = True, up to `await websockets.serve(...)`.
\* The code has no guard of its own.
Start(c) ==
    /\ pc[c] = "idle"
    /\ \A d \in Calls : d < c => pc[d] # "idle"
    /\ is_running' = TRUE
    /\ pc' = [pc EXCEPT ![c] = "serve"]
    /\ UNCHANGED <<keywords, ffmpeg_process, clients, procState, session, portOwner,
                   wsState, wsServer, tasks, nResults, nNoAlt, nEvents, acqFail,
                   trace, auxVars>>

\* start() called as main() calls it: never while an earlier call runs.
StartCall(c) == (\A d \in Calls : Idle(d)) /\ Start(c)

\* start() called while an earlier call has not returned.
ReentrantStartCall(c) == (\E d \in Calls : ~Idle(d)) /\ Start(c)

\* websockets.serve returns: the port is bound; then _get_stream_url is awaited.
Serve(c) ==
    /\ pc[c] = "serve"
    /\ portOwner = None
    /\ portOwner' = c
    /\ pc' = [pc EXCEPT ![c] = "get_url"]
    /\ UNCHANGED <<keywords, is_running, ffmpeg_process, clients, procState, session,
                   wsState, wsServer, tasks, nResults, nNoAlt, nEvents, acqFail,
                   trace, auxVars>>

\* websockets.serve raises OSError (the port is in use, by this program's own
\* server or by another program): it is outside the try block, so the exception
\* leaves start() with no cleanup.
ServeFail(c) ==
    /\ pc[c] = "serve"
    /\ pc' = [pc EXCEPT ![c] = "raised"]
    /\ UNCHANGED <<keywords, is_running, ffmpeg_process, clients, procState, session,
                   portOwner, wsState, wsServer, tasks, nResults, nNoAlt, nEvents,
                   acqFail, trace, auxVars>>

\* _get_stream_url returns (a URL, or None on error or timeout).
GetStreamUrl(c) ==
    /\ pc[c] = "get_url"
    /\ \E url \in {None, 1} :
         /\ acqFail' = [acqFail EXCEPT ![c] = url = None]
         /\ IF NoStreamUrl(url)
            THEN /\ ExitTry(c, TRUE)
                 /\ UNCHANGED <<ffmpeg_process, session>>
            ELSE /\ pc' = [pc EXCEPT ![c] = "spawn"]
                 /\ UNCHANGED <<is_running, ffmpeg_process, procState, session,
                                portOwner, wsState, trace>>
    /\ UNCHANGED <<keywords, clients, wsServer, tasks, nResults, nNoAlt, nEvents,
                   auxVars>>

\* asyncio.create_subprocess_exec('ffmpeg', ...) returns: the process runs;
\* then asyncio.sleep(2) is awaited.
SpawnFfmpeg(c) ==
    /\ pc[c] = "spawn"
    /\ ffmpeg_process' = c
    /\ procState' = [procState EXCEPT ![c] = "running"]
    /\ pc' = [pc EXCEPT ![c] = "sleep"]
    /\ UNCHANGED <<keywords, is_running, clients, session, portOwner, wsState, wsServer,
                   tasks, nResults, nNoAlt, nEvents, acqFail, trace, auxVars>>

\* asyncio.create_subprocess_exec raises (ffmpeg cannot be executed).
SpawnFail(c) ==
    /\ pc[c] = "spawn"
    /\ ExitTry(c, TRUE)
    /\ acqFail' = [acqFail EXCEPT ![c] = TRUE]
    /\ UNCHANGED <<keywords, ffmpeg_process, clients, session, wsServer, tasks, nResults, nNoAlt, nEvents, auxVars>>

\* The ffmpeg process ends (by itself, or after SIGTERM).
ProcExit(p) ==
    /\ ReturnCodeIsNone(procState[p])
    /\ procState' = [procState EXCEPT ![p] = "exited"]
    /\ UNCHANGED <<keywords, is_running, ffmpeg_process, clients, pc, session, portOwner,
                   wsState, wsServer, tasks, nResults, nNoAlt, nEvents, acqFail,
                   trace, auxVars>>

\* asyncio.sleep(2) returns: the returncode check of _start_ffmpeg_process, then
\* _google_stt_stream up to `await self.speech_client.streaming_recognize(...)`.
SleepDone(c) ==
    /\ pc[c] = "sleep"
    /\ acqFail' = [acqFail EXCEPT ![c] = ~ReturnCodeIsNone(procState[ffmpeg_process])]
    /\ IF FfmpegFailed(procState[ffmpeg_process])
       THEN /\ ExitTry(c, TRUE)
            /\ UNCHANGED <<ffmpeg_process, session>>
       ELSE /\ pc' = [pc EXCEPT ![c] = "open_session"]
            /\ UNCHANGED <<is_running, ffmpeg_process, procState, session, portOwner,
                           wsState, trace>>
    /\ UNCHANGED <<keywords, clients, wsServer, tasks, nResults, nNoAlt, nEvents,
                   auxVars>>

\* streaming_recognize returns the response stream: the session is open.
OpenSession(c) ==
    /\ pc[c] = "open_session"
    /\ session' = [session EXCEPT ![c] = "open"]
    /\ pc' = [pc EXCEPT ![c] = "streaming"]
    /\ UNCHANGED <<keywords, is_running, ffmpeg_process, clients, procState, portOwner,
                   wsState, wsServer, tasks, nResults, nNoAlt, nEvents, acqFail,
                   trace, auxVars>>

\* streaming_recognize raises: no session.
OpenSessionFail(c) ==
    /\ pc[c] = "open_session"
    /\ ExitTry(c, TRUE)
    /\ UNCHANGED <<keywords, ffmpeg_process, clients, session, wsServer, tasks, nResults, nNoAlt, nEvents, acqFail, auxVars>>

ResultSeen(r) == [alt |-> r.alt, is_final |-> r.is_final]

\* message = {...} and asyncio.create_task(self._broadcast(message)): a task
\* that has not run yet.  id numbers the events in the order of their creation;
\* `of` remembers the result the event was made from, `sends` counts the
\* client.send calls of the task that have completed.
NewTask(r, kwlist, n) ==
    [id |-> n, text |-> r.transcript, keywords |-> kwlist, is_final |-> r.is_final,
     of |-> ResultSeen(r), st |-> "scheduled", snapshot |-> {}, delivered |-> {},
     failed |-> {}, late |-> {}, sends |-> 0]

\* _process_stt_response(response): the sequences of tasks it may create, one
\* task for every result it does not skip, in the order of response.results;
\* n events were created before.
RECURSIVE ProcessResponse(_, _, _)
ProcessResponse(resp, kws, n) ==
    IF resp = <<>> THEN {<<>>}
    ELSE LET r == Head(resp)
         IN IF SkipsResult(r, kws)
            THEN ProcessResponse(Tail(resp), kws, n)
            ELSE {<<NewTask(r, kl, n + 1)>> \o q :
                    kl \in FindKeywords(r.transcript, kws),
                    q \in ProcessResponse(Tail(resp), kws, n + 1)}

\* asyncio.create_task(self._broadcast(message)): the task object is dropped,
\* so of the broadcasts in flight the result loop waits for none.
AwaitedAll(ts) == ts
Awaited(ts) == <<>>

\* `async for response in responses` yields a response, whose results are
\* drawn from RS: the running check and _process_stt_response, which does not
\* suspend.
RecvResponse(c, RS) ==
    /\ pc[c] = "streaming"
    /\ session[c] = "open"
    /\ Awaited(tasks) = <<>>
    /\ IF LoopBreaks(is_running)
       THEN /\ ExitTry(c, FALSE)
            /\ session' = [session EXCEPT ![c] = "abandoned"]
            /\ UNCHANGED <<tasks, nResults, nNoAlt, nEvents>>
       ELSE /\ \E resp \in SeqsUpTo(RS, MaxResults - nResults) :
                 /\ \E new \in ProcessResponse(resp, keywords, nEvents) :
                      /\ tasks' = tasks \o new
                      /\ nEvents' = nEvents + Len(new)
                 /\ nResults' = nResults + Len(resp)
                 /\ nNoAlt' = nNoAlt + Cardinality({i \in DOMAIN resp : ~resp[i].alt})
            /\ UNCHANGED <<is_running, pc, procState, session, portOwner, wsState,
                           trace>>
    /\ UNCHANGED <<keywords, ffmpeg_process, clients, wsServer, acqFail, auxVars>>

\* The response stream ends: the async for loop finishes normally.
StreamEnd(c) ==
    /\ pc[c] = "streaming"
    /\ session[c] = "open"
    /\ ExitTry(c, FALSE)
    /\ session' = [session EXCEPT ![c] = "ended"]
    /\ UNCHANGED <<keywords, ffmpeg_process, clients, wsServer, tasks, nResults, nNoAlt, nEvents, acqFail, auxVars>>

\* The response stream raises (the service ends the session with an error).
StreamError(c) ==
    /\ pc[c] = "streaming"
    /\ session[c] = "open"
    /\ ExitTry(c, TRUE)
    /\ session' = [session EXCEPT ![c] = "ended"]
    /\ UNCHANGED <<keywords, ffmpeg_process, clients, wsServer, tasks, nResults, nNoAlt, nEvents, acqFail, auxVars>>

\* server.wait_closed() returns, once the handlers of the server's connections
\* have finished; then start() returns.
WaitClosed(c) ==
    /\ pc[c] = "wait_closed"
    /\ \A w \in Subscribers : wsServer[w] = c => wsState[w] = "gone"
    /\ pc' = [pc EXCEPT ![c] = "returned"]
    /\ UNCHANGED <<keywords, is_running, ffmpeg_process, clients, procState, session,
                   portOwner, wsState, wsServer, tasks, nResults, nNoAlt, nEvents,
                   acqFail, trace, auxVars>>

\* stop(), called from outside start() (main's finally, or any other holder of
\* the object).
Stop ==
    /\ is_running' = FALSE
    /\ procState' = Terminate(procState, ffmpeg_process)
    /\ UNCHANGED <<keywords, ffmpeg_process, clients, pc, session, portOwner, wsState,
                   wsServer, tasks, nResults, nNoAlt, nEvents, acqFail, trace,
                   auxVars>>

\* ------------------------------------------------------- request_generator
\* The variables of the pipeline proper.
pipeVars == <<keywords, is_running, ffmpeg_process, clients, pc, procState, session,
              portOwner, wsState, wsServer, tasks, nResults, nNoAlt, nEvents, acqFail,
              trace>>

\* StreamingRecognizeRequest(streaming_config=...) and
\* StreamingRecognizeRequest(audio_content=chunk), chunk being the n-th read
\* from the stdout of process src.
ConfigRequest == [kind |-> "config", src |-> None, n |-> 0]
AudioRequest(p, k) == [kind |-> "audio", src |-> p, n |-> k]

\* The first yield of request_generator.
FirstRequestOmitted(cfg) == <<>>
FirstRequest(cfg) == <<cfg>>

\* The call streaming_recognize returned is still there to pull requests: its
\* responses are being consumed, or were left by the break of the result loop.
CallAlive(c) == session[c] \in {"open", "abandoned"}

\* The client pulls the first request: the generator runs up to its first yield.
GenConfig(c) ==
    /\ genPc[c] = "none"
    /\ CallAlive(c)
    /\ sent' = [sent EXCEPT ![c] = FirstRequest(ConfigRequest)]
    /\ genPc' = [genPc EXCEPT ![c] = "loop"]
    /\ UNCHANGED <<pipeVars, kwVars, regVars, genSrc, nRead>>

\* The client pulls the next request: `while self.is_running`, then up to
\* `await self.ffmpeg_process.stdout.read(8000)`; the generator returns when
\* the flag is down.
GenLoop(c) ==
    /\ genPc[c] = "loop"
    /\ CallAlive(c)
    /\ IF is_running
       THEN /\ genPc' = [genPc EXCEPT ![c] = "read"]
            /\ genSrc' = [genSrc EXCEPT ![c] = ffmpeg_process]
       ELSE /\ genPc' = [genPc EXCEPT ![c] = "stopped"]
            /\ UNCHANGED genSrc
    /\ UNCHANGED <<pipeVars, kwVars, regVars, nRead, sent>>

\* read(8000) returns bytes: the chunk is yielded and sent.
GenChunk(c) ==
    /\ genPc[c] = "read"
    /\ CallAlive(c)
    /\ ReturnCodeIsNone(procState[genSrc[c]])
    /\ nRead[genSrc[c]] < MaxChunks
    /\ nRead' = [nRead EXCEPT ![genSrc[c]] = @ + 1]
    /\ sent' = [sent EXCEPT ![c] = Append(@, AudioRequest(genSrc[c], nRead[genSrc[c]] + 1))]
    /\ genPc' = [genPc EXCEPT ![c] = "loop"]
    /\ UNCHANGED <<pipeVars, kwVars, regVars, genSrc>>

\* read(8000) returns b"" (the process has exited): `if not chunk: break`.
GenEof(c) ==
    /\ genPc[c] = "read"
    /\ CallAlive(c)
    /\ procState[genSrc[c]] = "exited"
    /\ genPc' = [genPc EXCEPT ![c] = "eof"]
    /\ UNCHANGED <<pipeVars, kwVars, regVars, genSrc, nRead, sent>>

\* The call is over: the client stops pulling and cancels the generator
\* (`except asyncio.CancelledError: break` when it is suspended in the read).
GenCancel(c) ==
    /\ genPc[c] \in {"loop", "read"}
    /\ session[c] = "ended"
    /\ genPc' = [genPc EXCEPT ![c] = "cancelled"]
    /\ UNCHANGED <<pipeVars, kwVars, regVars, genSrc, nRead, sent>>

\* A call the result loop left by `break` is never closed by the program: it
\* is over when the service ends it or when the call object is finalised.
SessionRelease(c) ==
    /\ session[c] = "abandoned"
    /\ session' = [session EXCEPT ![c] = "ended"]
    /\ UNCHANGED <<keywords, is_running, ffmpeg_process, clients, pc, procState,
                   portOwner, wsState, wsServer, tasks, nResults, nNoAlt, nEvents,
                   acqFail, trace, auxVars>>

\* ------------------------------------------------------------- the registry
\* self.clients.add(websocket)
SetAdd(S, w) == S \cup {w}

\* self.clients.remove(websocket): raises KeyError when w is not a member
SetRemoveKeeps(S, w) == [set |-> S, keyError |-> FALSE]
SetRemove(S, w) ==
    IF w \in S THEN [set |-> S \ {w}, keyError |-> FALSE]
    ELSE [set |-> S, keyError |-> TRUE]

\* _websocket_handler up to `await websocket.wait_closed()`: a new connection.
Connect(w) ==
    /\ wsState[w] = "none"
    /\ \A v \in Subscribers : v < w => wsState[v] # "none"
    /\ portOwner # None
    /\ wsState' = [wsState EXCEPT ![w] = "open"]
    /\ wsServer' = [wsServer EXCEPT ![w] = portOwner]
    /\ clients' = SetAdd(clients, w)
    /\ tasks' = [b \in DOMAIN tasks |->
                   IF tasks[b].st # "scheduled"
                   THEN [tasks[b] EXCEPT !.late = @ \cup {w}]
                   ELSE tasks[b]]
    /\ UNCHANGED <<keywords, is_running, ffmpeg_process, pc, procState, session,
                   portOwner, nResults, nNoAlt, nEvents, acqFail, trace, auxVars>>

\* The connection closes (the peer leaves, or the network fails).
Close(w) ==
    /\ wsState[w] = "open"
    /\ wsState' = [wsState EXCEPT ![w] = "closed"]
    /\ UNCHANGED <<keywords, is_running, ffmpeg_process, clients, pc, procState, session,
                   portOwner, wsServer, tasks, nResults, nNoAlt, nEvents, acqFail,
                   trace, auxVars>>

\* websocket.wait_closed() returns: the finally clause of _websocket_handler.
HandlerFinish(w) ==
    /\ wsState[w] \in {"closed", "shut"}
    /\ ~SetRemove(clients, w).keyError
    /\ clients' = SetRemove(clients, w).set
    /\ wsState' = [wsState EXCEPT ![w] = "gone"]
    /\ UNCHANGED <<keywords, is_running, ffmpeg_process, pc, procState, session,
                   portOwner, wsServer, tasks, nResults, nNoAlt, nEvents, acqFail,
                   trace, auxVars>>

\* ------------------------------------------------------------- _broadcast
\* asyncio.gather(*tasks, return_exceptions=True)
ReturnExceptionsOff == FALSE
ReturnExceptions == TRUE

\* tasks = [client.send(...) for client in self.clients]: the list is built
\* at once from the set as it is then; `live` is the set as it is later.
TargetsLive(snap, live) == live
Targets(snap, live) == snap

\* The sends the gather of task t still waits for: one per element of the
\* list, each awaited once.
PendingAgain(t) == Targets(t.snapshot, clients)
Pending(t) == Targets(t.snapshot, clients) \ (t.delivered \cup t.failed)

\* _broadcast: if not self.clients: return
NoClientsNever(cl) == FALSE
NoClients(cl) == cl = {}

\* The sequence q without its element at index b.
RemoveAt(q, b) == [i \in 1..(Len(q) - 1) |-> IF i < b THEN q[i] ELSE q[i + 1]]

\* The _broadcast task runs for the first time: it returns at once when there is
\* no client (the task is over), and otherwise runs up to `await asyncio.gather`.
BroadcastStart(b) ==
    /\ b \in DOMAIN tasks
    /\ tasks[b].st = "scheduled"
    /\ tasks' = IF NoClients(clients)
                THEN RemoveAt(tasks, b)
                ELSE [tasks EXCEPT ![b] =
                        [@ EXCEPT !.st = "gathering", !.snapshot = clients]]
    /\ UNCHANGED <<keywords, is_running, ffmpeg_process, clients, pc, procState, session,
                   portOwner, wsState, wsServer, nResults, nNoAlt, nEvents, acqFail,
                   trace, auxVars>>

\* One client.send of the gather completes: delivered on an open connection,
\* ConnectionClosed on a closed one.
Send(b, w) ==
    /\ b \in DOMAIN tasks
    /\ tasks[b].st = "gathering"
    /\ w \in Pending(tasks[b])
    /\ tasks' = [tasks EXCEPT ![b] =
                   IF wsState[w] = "open"
                   THEN [@ EXCEPT !.delivered = @ \cup {w}, !.sends = @ + 1]
                   ELSE [@ EXCEPT !.failed = @ \cup {w}, !.sends = @ + 1]]
    /\ UNCHANGED <<keywords, is_running, ffmpeg_process, clients, pc, procState, session,
                   portOwner, wsState, wsServer, nResults, nNoAlt, nEvents, acqFail,
                   trace, auxVars>>

\* asyncio.gather returns, and _broadcast with it: the task is over.  Without
\* return_exceptions gather would raise the first exception of a send at once;
\* the task would end holding that exception ("raised").
BroadcastFinish(b) ==
    /\ b \in DOMAIN tasks
    /\ tasks[b].st = "gathering"
    /\ IF ReturnExceptions
       THEN /\ Pending(tasks[b]) = {}
            /\ tasks' = RemoveAt(tasks, b)
       ELSE /\ Pending(tasks[b]) = {} \/ tasks[b].failed # {}
            /\ tasks' = IF tasks[b].failed # {}
                        THEN [tasks EXCEPT ![b] = [@ EXCEPT !.st = "raised"]]
                        ELSE RemoveAt(tasks, b)
    /\ UNCHANGED <<keywords, is_running, ffmpeg_process, clients, pc, procState, session,
                   portOwner, wsState, wsServer, nResults, nNoAlt, nEvents, acqFail,
                   trace, auxVars>>

\* ---------------------------------------------------------------- the system
\* __init__
SysRest ==
    /\ is_running = FALSE
    /\ ffmpeg_process = None
    /\ clients = {}
    /\ pc = [c \in Calls |-> "idle"]
    /\ procState = [c \in Calls |-> "none"]
    /\ session = [c \in Calls |-> "none"]
    /\ portOwner = None
    /\ wsState = [w \in Subscribers |-> "none"]
    /\ wsServer = [w \in Subscribers |-> None]
    /\ tasks = <<>>
    /\ nResults = 0
    /\ nNoAlt = 0
    /\ nEvents = 0
    /\ acqFail = [c \in Calls |-> FALSE]
    /\ trace = [c \in Calls |-> <<>>]

SysInit == keywords = KeywordSetOf(BettingKeywords) /\ SysRest

KwIdle == text = <<>> /\ found = <<>> /\ kwDone = FALSE
RegIdle == regOps = <<>> /\ keyError = FALSE
GenIdle ==
    /\ genPc = [c \in Calls |-> "none"]
    /\ genSrc = [c \in Calls |-> None]
    /\ nRead = [p \in Calls |-> 0]
    /\ sent = [c \in Calls |-> <<>>]

Init == SysInit /\ KwIdle /\ RegIdle /\ GenIdle

\* The program as main() runs it: one call of start(), with websocket peers.
\* _broadcast never reads the message it sends, so the recognition service is
\* left to answer with one kind of result here.
FirstCall == {1}

Next ==
    \/ \E c \in FirstCall : StartCall(c)
    \/ \E c \in FirstCall : Serve(c)
    \/ \E c \in FirstCall : ServeFail(c)
    \/ \E c \in FirstCall : GetStreamUrl(c)
    \/ \E c \in FirstCall : SpawnFfmpeg(c)
    \/ \E c \in FirstCall : SpawnFail(c)
    \/ \E c \in FirstCall : ProcExit(c)
    \/ \E c \in FirstCall : SleepDone(c)
    \/ \E c \in FirstCall : OpenSession(c)
    \/ \E c \in FirstCall : OpenSessionFail(c)
    \/ \E c \in FirstCall : RecvResponse(c, FinalResults)
    \/ \E c \in FirstCall : StreamEnd(c)
    \/ \E c \in FirstCall : StreamError(c)
    \/ \E c \in FirstCall : WaitClosed(c)
    \/ Stop
    \/ \E w \in Subscribers : Connect(w)
    \/ \E w \in Subscribers : Close(w)
    \/ \E w \in Subscribers : HandlerFinish(w)
    \/ \E b \in 1..MaxResults : BroadcastStart(b)
    \/ \E b \in 1..MaxResults : BroadcastFinish(b)
    \/ \E b \in 1..MaxResults, w \in Subscribers : Send(b, w)

Spec == Init /\ [][Next]_vars

\* `await websocket.wait_closed()` returns once the connection is closed, and
\* the event loop then resumes the handler.
HandlerFairness == \A w \in Subscribers : WF_vars(HandlerFinish(w))

FairSpec == Spec /\ HandlerFairness

\* start() called again after it returned, up to MaxStarts times, with no
\* websocket peer connecting.
RestartNext ==
    \/ \E c \in Calls : StartCall(c)
    \/ \E c \in Calls : Serve(c)
    \/ \E c \in Calls : ServeFail(c)
    \/ \E c \in Calls : GetStreamUrl(c)
    \/ \E c \in Calls : SpawnFfmpeg(c)
    \/ \E c \in Calls : SpawnFail(c)
    \/ \E c \in Calls : ProcExit(c)
    \/ \E c \in Calls : SleepDone(c)
    \/ \E c \in Calls : OpenSession(c)
    \/ \E c \in Calls : OpenSessionFail(c)
    \/ \E c \in Calls : RecvResponse(c, Results)
    \/ \E c \in Calls : StreamEnd(c)
    \/ \E c \in Calls : StreamError(c)
    \/ \E c \in Calls : WaitClosed(c)
    \/ Stop
    \/ \E b \in 1..MaxResults : BroadcastStart(b)

RestartSpec == Init /\ [][RestartNext]_vars

\* The same, with callers that also call start() while an earlier call runs.
ReentrantNext ==
    \/ RestartNext
    \/ \E c \in Calls : ReentrantStartCall(c)

ReentrantSpec == Init /\ [][ReentrantNext]_vars

\* Responses that carry no result: the result loop makes its running check and
\* submits nothing.
NoResults == {}

\* The calls of start() and stop() alone, in any order and overlapping, with
\* responses that carry no result and no websocket peer.
LifecycleNext ==
    \/ \E c \in Calls : StartCall(c)
    \/ \E c \in Calls : ReentrantStartCall(c)
    \/ \E c \in Calls : Serve(c)
    \/ \E c \in Calls : ServeFail(c)
    \/ \E c \in Calls : GetStreamUrl(c)
    \/ \E c \in Calls : SpawnFfmpeg(c)
    \/ \E c \in Calls : SpawnFail(c)
    \/ \E c \in Calls : ProcExit(c)
    \/ \E c \in Calls : SleepDone(c)
    \/ \E c \in Calls : OpenSession(c)
    \/ \E c \in Calls : OpenSessionFail(c)
    \/ \E c \in Calls : RecvResponse(c, NoResults)
    \/ \E c \in Calls : StreamEnd(c)
    \/ \E c \in Calls : StreamError(c)
    \/ \E c \in Calls : WaitClosed(c)
    \/ Stop

LifecycleSpec == Init /\ [][LifecycleNext]_vars

\* The pipeline with its request generator: start() called again after it
\* returned, no websocket peer, responses without results.
StreamNext ==
    \/ \E c \in Calls : StartCall(c)
    \/ \E c \in Calls : Serve(c)
    \/ \E c \in Calls : ServeFail(c)
    \/ \E c \in Calls : GetStreamUrl(c)
    \/ \E c \in Calls : SpawnFfmpeg(c)
    \/ \E c \in Calls : SpawnFail(c)
    \/ \E c \in Calls : ProcExit(c)
    \/ \E c \in Calls : SleepDone(c)
    \/ \E c \in Calls : OpenSession(c)
    \/ \E c \in Calls : OpenSessionFail(c)
    \/ \E c \in Calls : RecvResponse(c, NoResults)
    \/ \E c \in Calls : StreamEnd(c)
    \/ \E c \in Calls : StreamError(c)
    \/ \E c \in Calls : WaitClosed(c)
    \/ Stop
    \/ \E c \in Calls : GenConfig(c)
    \/ \E c \in Calls : GenLoop(c)
    \/ \E c \in Calls : GenChunk(c)
    \/ \E c \in Calls : GenEof(c)
    \/ \E c \in Calls : GenCancel(c)
    \/ \E c \in Calls : SessionRelease(c)

StreamSpec == Init /\ [][StreamNext]_vars

\* The ffmpeg process ends after terminate() sent it SIGTERM.
ExitAfterSignal(p) == procState[p] = "signalled" /\ ProcExit(p)

\* What the event loop and the operating system guarantee: a coroutine or
\* task that can run is run, a read at end of file returns, a process that
\* was sent SIGTERM ends, a call object nobody holds any more is finalised.
\* Nothing is assumed of what the recognition service sends, of the audio
\* stream or of the callers of start() and stop().
StreamFairness ==
    /\ \A c \in Calls : WF_vars(SessionRelease(c))
    /\ \A c \in Calls : WF_vars(WaitClosed(c))
    /\ \A c \in Calls : WF_vars(GenConfig(c))
    /\ \A c \in Calls : WF_vars(GenLoop(c))
    /\ \A c \in Calls : WF_vars(GenEof(c))
    /\ \A c \in Calls : WF_vars(GenCancel(c))
    /\ \A p \in Calls : WF_vars(ExitAfterSignal(p))

FairStreamSpec == StreamSpec /\ StreamFairness

\* ------------------------------------------- _find_keywords as a function
\* The characters transcripts are drawn from.
Alphabet == {"a", "A", "b", "B", "e", "t", ".", ",", " "}

\* Word lists the constructor may be given.
KeywordLists == {BettingKeywords, <<<<"A">>, <<"b">>>>}

\* The scenario of the specification.
ExampleText ==
    <<"T", "h", "e", " ", "o", "d", "d", "s", " ", "a", "r", "e", " ", "i", "n", " ",
      "y", "o", "u", "r", " ", "f", "a", "v", "o", "r", ",", " ", "p", "l", "a", "c",
      "e", " ", "y", "o", "u", "r", " ", "b", "e", "t", " ", "n", "o", "w", ".">>

Texts == SeqsUpTo(Alphabet, MaxTextLen) \cup {ExampleText}

KeywordInit ==
    /\ keywords \in {KeywordSetOf(l) : l \in KeywordLists}
    /\ text \in Texts
    /\ found = <<>>
    /\ kwDone = FALSE
    /\ SysRest
    /\ RegIdle
    /\ GenIdle

\* self._find_keywords(text) is called and returns.
FindKeywordsCall ==
    /\ ~kwDone
    /\ found' \in FindKeywords(text, keywords)
    /\ kwDone' = TRUE
    /\ UNCHANGED <<keywords, is_running, ffmpeg_process, clients, pc, procState, session,
                   portOwner, wsState, wsServer, tasks, nResults, nNoAlt, nEvents,
                   acqFail, trace, text, regVars, genVars>>

KeywordNext == FindKeywordsCall

KeywordSpec == KeywordInit /\ [][KeywordNext]_vars

\* --------------------------------------------- the registry's two operations
\* A state of the running program: the server listens, every connection was
\* accepted, and those not in self.clients have left again.
RegistryInit ==
    /\ keywords = KeywordSetOf(BettingKeywords)
    /\ is_running = TRUE
    /\ ffmpeg_process = None
    /\ clients \in SUBSET Subscribers
    /\ pc = [c \in Calls |-> IF c = 1 THEN "get_url" ELSE "idle"]
    /\ procState = [c \in Calls |-> "none"]
    /\ session = [c \in Calls |-> "none"]
    /\ portOwner = 1
    /\ wsState = [w \in Subscribers |-> IF w \in clients THEN "open" ELSE "gone"]
    /\ wsServer = [w \in Subscribers |-> 1]
    /\ tasks = <<>>
    /\ nResults = 0
    /\ nNoAlt = 0
    /\ nEvents = 0
    /\ acqFail = [c \in Calls |-> FALSE]
    /\ trace = [c \in Calls |-> <<>>]
    /\ KwIdle
    /\ RegIdle
    /\ GenIdle

\* self.clients.add(w), as _websocket_handler registers a subscriber.
Register(w) ==
    /\ Len(regOps) < MaxOps
    /\ clients' = SetAdd(clients, w)
    /\ keyError' = FALSE
    /\ regOps' = Append(regOps, [op |-> "add", w |-> w, before |-> clients])
    /\ UNCHANGED <<keywords, is_running, ffmpeg_process, pc, procState, session,
                   portOwner, wsState, wsServer, tasks, nResults, nNoAlt, nEvents,
                   acqFail, trace, kwVars, genVars>>

\* self.clients.remove(w), as _websocket_handler unregisters a subscriber.
Unregister(w) ==
    /\ Len(regOps) < MaxOps
    /\ clients' = SetRemove(clients, w).set
    /\ keyError' = SetRemove(clients, w).keyError
    /\ regOps' = Append(regOps, [op |-> "remove", w |-> w, before |-> clients])
    /\ UNCHANGED <<keywords, is_running, ffmpeg_process, pc, procState, session,
                   portOwner, wsState, wsServer, tasks, nResults, nNoAlt, nEvents,
                   acqFail, trace, kwVars, genVars>>

RegistryNext ==
    \/ \E w \in Subscribers : Register(w)
    \/ \E w \in Subscribers : Unregister(w)

RegistrySpec == RegistryInit /\ [][RegistryNext]_vars

\* ------------------------------------------------------------------ claims
Live == Range(tasks)

\* Task t returns in this step: it is in tasks and no longer in tasks'.
Returns(t) == \A u \in Range(tasks') : u.id # t.id

\* C1: a send that fails does not stop the other sends of the same broadcast
\* and raises nothing: no _broadcast task ever ends holding an exception, and
\* a _broadcast task returns only when the send to every subscriber of its
\* snapshot has completed, delivered to each one whose send did not fail.
C1_FailureIsIsolated ==
    /\ [](\A t \in Live : t.st # "raised")
    /\ [][\A t \in Live :
            Returns(t) => /\ t.delivered \cup t.failed = t.snapshot
                          /\ t.delivered = t.snapshot \ t.failed]_vars

\* C1 witness: a broadcast to two or more subscribers whose sends have all
\* completed, one failed and another delivered.
C1_Witness ==
    \E t \in Live :
        /\ t.st = "gathering"
        /\ Cardinality(t.snapshot) >= 2
        /\ t.failed # {}
        /\ t.delivered # {}
        /\ t.delivered \cup t.failed = t.snapshot

\* C2 (as claimed): when a broadcast whose send to a subscriber failed returns,
\* that subscriber is no longer in self.clients.
C2_FailedIsUnregistered ==
    [][\A t \in Live : Returns(t) => t.failed \cap clients' = {}]_vars

\* C3: a subscriber registered after a broadcast took its snapshot is not in
\* that snapshot and is never sent that event.
C3_LateSubscriberNotServed ==
    \A t \in Live :
        /\ t.late \cap t.snapshot = {}
        /\ t.late \cap (t.delivered \cup t.failed) = {}

\* C3 witness: a broadcast in flight that has delivered to a subscriber of its
\* snapshot while a subscriber registered after the snapshot is connected.
C3_Witness ==
    \E t \in Live :
        /\ t.delivered # {}
        /\ Pending(t) = {}
        /\ \E w \in t.late : wsState[w] = "open" /\ w \in clients

\* Every event in flight mirrors the is_final of the result it was made from.
IsFinalMirrored == \A t \in Live : t.is_final = t.of.is_final

\* C4 (as claimed): one event is submitted for every result handed to
\* _process_stt_response, with or without alternatives, is_final mirrored.
C4_OneEventPerResult == nEvents = nResults /\ IsFinalMirrored

\* C4 (amended): one event is submitted for every result that has at least one
\* alternative, matched or not, with is_final mirrored; a result with no
\* alternatives is skipped and yields no event.
C4_OneEventPerResultWithAlternatives ==
    /\ nEvents = nResults - nNoAlt
    /\ IsFinalMirrored
    /\ \A t \in Live : t.of.alt

\* C4 witness: a result without alternatives was skipped and an event with no
\* matched keyword was submitted.
C4_Witness ==
    /\ nNoAlt > 0
    /\ \E t \in Live : t.keywords = <<>> /\ ~t.is_final

\* C5 (as claimed): a call of start() made while an earlier call has not
\* returned is rejected: beside the rejected call no second call is ever past
\* the start of the server, and the call leaves is_running as it was.
C5_ReentrantStartRejected ==
    /\ [](\A c, d \in Calls :
            (c # d /\ ~Idle(c) /\ ~Idle(d)) => (pc[c] = "serve" \/ pc[d] = "serve"))
    /\ [][(\E c \in Calls : ~Idle(c) /\ pc[c] = pc'[c])
          /\ (\E d \in Calls : pc[d] = "idle" /\ pc'[d] = "serve")
          => is_running' = is_running]_vars

\* No event is delivered to a subscriber in this step.
NoDelivery ==
    \A t \in Live : \A u \in Range(tasks') : u.id = t.id => u.delivered = t.delivered

\* C6 (as claimed): while is_running is False no event is submitted and no
\* delivery to a subscriber happens.
C6_NothingAfterStop == [][~is_running => (nEvents' = nEvents /\ NoDelivery)]_vars

\* C6 (amended): while is_running is False no event is submitted.
C6_NoSubmissionAfterStop == [][~is_running => nEvents' = nEvents]_vars

\* C6 witness: the result loop saw is_running False and left, after events had
\* been submitted, one of which is still being delivered.
C6_Witness ==
    /\ ~is_running
    /\ \E c \in Calls : session[c] = "abandoned"
    /\ nEvents > 0
    /\ \E t \in Live : t.st = "gathering"

Left(c) == pc[c] \in {"wait_closed", "returned"}

\* C7: a call of start() whose acquisition failed has reported the failure and
\* cleaned up, never opened a recognition session, and its audio subprocess,
\* if it started one, has exited.
C7_AcquisitionFailure ==
    \A c \in Calls :
        acqFail[c] =>
            /\ Left(c)
            /\ trace[c] = <<"report", "stop", "server_close">>
            /\ session[c] = "none"
            /\ procState[c] \in {"none", "exited"}

\* C7 witness: the producer exited at once and start() has returned.
C7_Witness ==
    \E c \in Calls : acqFail[c] /\ pc[c] = "returned" /\ procState[c] = "exited"

Reported(c) == "report" \in Range(trace[c])

\* The position of label x in the sequence q (0 when absent).
IndexOf(q, x) == IF x \in Range(q) THEN CHOOSE i \in DOMAIN q : q[i] = x ELSE 0

NoKeywordIn(t, kws) == \A i \in DOMAIN Words(t) : Words(t)[i] \notin kws

\* C10: the list _find_keywords returns holds only configured keywords, each at
\* most once; it is empty for the empty text and for a text with no keyword
\* among its words; and the scenario's text yields exactly odds and bet.
C10_KeywordsSubsetNoDuplicates ==
    kwDone =>
        /\ Range(found) \subseteq keywords
        /\ Cardinality(Range(found)) = Len(found)
        /\ text = <<>> => found = <<>>
        /\ NoKeywordIn(text, keywords) => found = <<>>
        /\ (text = ExampleText /\ keywords = {Str_bet, Str_odds}) =>
               Range(found) = {Str_odds, Str_bet}

\* C10 witness: a text in which a keyword occurs twice, returned once.
C10_Witness ==
    /\ kwDone
    /\ found # <<>>
    /\ Len(Found(text, keywords)) > Len(found)

\* C11: on every recognition session the first request sent is the
\* configuration, every later request is an audio chunk, and the chunks of one
\* audio source are sent in the order they were read from it; so no audio
\* chunk is ever sent before the configuration.
C11_ConfigFirstThenAudioInOrder ==
    \A c \in Calls : \A i \in DOMAIN sent[c] :
        /\ i = 1 => sent[c][i] = ConfigRequest
        /\ i > 1 => /\ sent[c][i].kind = "audio"
                    /\ \A j \in 2..(i - 1) :
                          sent[c][j].src = sent[c][i].src => sent[c][j].n < sent[c][i].n

\* A session on which the configuration and two chunks were sent.
C11_Witness ==
    \E c \in Calls : Len(sent[c]) >= 3 /\ sent[c][1].kind = "config"

\* C12: a _broadcast that runs while self.clients is empty returns at once: it
\* raises nothing and attempts no delivery (it never reaches its gather), and
\* the event is dropped, for a task that is over never comes back when a
\* subscriber connects later.
C12_EmptyBroadcastDropsEvent ==
    [][/\ \A t \in Live :
            t.st = "scheduled" /\ clients = {}
                => \A u \in Range(tasks') : u.id = t.id => u = t
       /\ \A u \in Range(tasks') :
            /\ u.st \in {"scheduled", "gathering"}
            /\ u.id <= nEvents => \E t \in Live : t.id = u.id]_vars

\* Events were submitted and their broadcasts are over, and no subscriber has
\* ever connected.
C12_Witness ==
    /\ nEvents > 0
    /\ tasks = <<>>
    /\ \A w \in Subscribers : wsState[w] = "none"

\* A broadcast in flight: its gather waits for a send that has not completed.
InFlight(t) == t.st = "gathering" /\ Pending(t) # {}

\* The result loop takes a response and submits at least one new broadcast.
SubmitsNewBroadcast(c) ==
    RecvResponse(c, FinalResults) /\ Len(tasks') > Len(tasks)

\* C14: while a broadcast is in flight, the running result loop can take the
\* next response at once and submit its event as a further broadcast: it
\* waits for no earlier broadcast, however slow that one's subscribers are.
C14_LoopNeverWaitsForBroadcast ==
    \A c \in FirstCall :
        (/\ pc[c] = "streaming"
         /\ session[c] = "open"
         /\ is_running
         /\ nResults < MaxResults
         /\ \E t \in Live : InFlight(t))
            => ENABLED SubmitsNewBroadcast(c)

\* Two broadcasts in flight at once, the later one submitted while the send
\* of the earlier one to some subscriber had not completed.
C14_Witness ==
    \E t, u \in Live :
        /\ t.id < u.id
        /\ InFlight(t)
        /\ InFlight(u)
        /\ Pending(t) \cap u.snapshot # {}

\* Call c has returned to its caller with its audio subprocess signalled or
\* gone and its recognition session over.
BackToIdle(c) ==
    /\ pc[c] = "returned"
    /\ procState[c] # "running"
    /\ session[c] = "ended"

\* C13: a stop requested while a call is streaming leads to that call back in
\* Idle with its audio subprocess signalled to terminate and its recognition
\* session closed, whatever the recognition service does.
C13_StopReachesIdle ==
    \A c \in Calls : (pc[c] = "streaming" /\ ~is_running) ~> BackToIdle(c)

\* C16: once the audio source is at end of stream (the read of a chunk has
\* returned no bytes) while a call is streaming, that call eventually leaves
\* Streaming and returns, whatever the recognition service does.
C16_EndOfStreamReachesIdle ==
    \A c \in Calls : (pc[c] = "streaming" /\ genPc[c] = "eof") ~> pc[c] = "returned"

\* C15: removing a subscriber from self.clients while a broadcast is in flight
\* leaves that broadcast as it is: the sends it still waits for are the same
\* before and after the removal, no broadcast ends with an exception, and a
\* broadcast that returns after one of its subscribers was removed has
\* completed the send to every subscriber of its snapshot and delivered to
\* each of them whose connection is open.
C15_RemovalDoesNotBreakBroadcast ==
    [][/\ \A t \in Live :
            (t.st = "gathering" /\ clients' # clients /\ clients' \subseteq clients)
                => /\ tasks' = tasks
                   /\ Targets(t.snapshot, clients') \ (t.delivered \cup t.failed)
                        = Pending(t)
       /\ \A t \in Live :
            (t.st = "gathering" /\ Returns(t) /\ t.snapshot \ clients # {})
                => /\ t.snapshot = t.delivered \cup t.failed
                   /\ \A v \in t.snapshot : wsState[v] = "open" => v \in t.delivered
       /\ \A u \in Range(tasks') : u.st # "raised"]_vars

\* A broadcast about to return, one subscriber of its snapshot removed from
\* self.clients meanwhile, another one served.
C15_Witness ==
    \E t \in Live :
        /\ t.st = "gathering"
        /\ Pending(t) = {}
        /\ t.snapshot \ clients # {}
        /\ t.delivered \cap clients # {}

\* C17: the cleanup of start() leaves the registry as it was: a subscriber
\* leaves self.clients only because its peer disconnected on its own, never
\* as an effect of the cleanup, so the registry after the return to Idle is
\* the registry before the cleanup less the subscribers that left by
\* themselves.
C17_CleanupLeavesRegistryIntact ==
    [][\A w \in clients : w \notin clients' => wsState[w] = "closed"]_vars

\* The sessions whose responses a result loop is consuming.
OpenSessions == {c \in Calls : session[c] = "open"}

ClosedUnhandled(w) == wsState[w] \in {"closed", "shut"}

\* C19: a subscriber is in self.clients exactly from its connect to the end
\* of its connection handler; every subscriber whose connection closes is
\* eventually removed from self.clients; and a send to a closed subscriber
\* that is still in a snapshot fails alone: it is recorded as failed for that
\* subscriber, takes nothing from the other subscribers of the broadcast and
\* leaves the broadcast gathering.
C19_ClosedSubscriberEventuallyRemoved ==
    /\ [](\A w \in Subscribers : w \in clients <=> wsState[w] \in {"open", "closed", "shut"})
    /\ \A w \in Subscribers : ClosedUnhandled(w) ~> (w \notin clients)
    /\ [][\A t \in Live : \A u \in Range(tasks') :
            (u.id = t.id /\ u.failed # t.failed)
                => /\ \E w \in t.snapshot :
                        /\ ClosedUnhandled(w) \/ wsState[w] = "gone"
                        /\ u.failed = t.failed \cup {w}
                   /\ u.delivered = t.delivered
                   /\ u.snapshot = t.snapshot
                   /\ u.st = "gathering"]_vars

\* A subscriber whose connection closed was still in the snapshot of a
\* broadcast, its send failed while another subscriber was served, and its
\* handler has removed it since.
C19_Witness ==
    \E w \in Subscribers : \E t \in Live :
        /\ wsState[w] = "gone"
        /\ w \notin clients
        /\ w \in t.failed
        /\ t.delivered # {}

\* C20: every broadcast sends to subscribers of its snapshot only, and to each
\* of them at most once: the sends that completed are as many as the
\* subscribers they completed for, and no subscriber counts both as served
\* and as failed.
C20_AtMostOncePerSnapshotMember ==
    \A t \in Live :
        /\ t.delivered \subseteq t.snapshot
        /\ t.failed \subseteq t.snapshot
        /\ t.delivered \cap t.failed = {}
        /\ t.sends = Cardinality(t.delivered \cup t.failed)

\* Two broadcasts in flight at once have both delivered to the same
\* subscriber, while another subscriber connected after the snapshot of one of
\* them and a third connection has closed.
C20_Witness ==
    \E t, u \in Live :
        /\ t.id # u.id
        /\ t.delivered \cap u.delivered # {}
        /\ t.late # {}
        /\ \E w \in Subscribers : wsState[w] # "open" /\ wsState[w] # "none"
====
